---- MODULE Spec2Model ----
(***************************************************************************)
(* Model of the coop numerical engines:                                    *)
(*   - the weighted covariance engine, src/src/dense_wt.c                  *)
(*     (wtchecks, wtcp, center_wt, coop_covar_wt_mat);                     *)
(*   - the dense cosine engine and the sparse COO cosine engine, as the    *)
(*     repository describes them step by step in "The Algorithms with      *)
(*     Notes on Implementation" (src/unnamed/part_000,                     *)
(*     src/vignettes/algos.Rmd).                                           *)
(*                                                                         *)
(* Numbers.  A double of the weighted engine is an exact rational          *)
(* <<num, den>> (den = 0: +-Inf or NaN).  A cell of a cosine result is a   *)
(* pair <<p, q>> standing for p / sqrt(q) (q = 0 and p = 0: NaN).          *)
(* Matrices are flat, 0-based, column-major arrays, as in the C code:      *)
(* entry (i, j) of an m x n matrix is x[i + m*j].                          *)
(***************************************************************************)
EXTENDS Integers, Sequences, FiniteSets, TLC

\* ------------------------------------------------------------------ bounds
MaxM == 2
MaxN == 3
MaxNnz == 3
MaxWtN == 2

\* ------------------------------------------------------- program constants
WT_UNBIASED == 1
WT_ML == 2
BADWT == 0 - 1

\* ---------------------------------------------------------------- numbers
Abs(a) == IF a < 0 THEN 0 - a ELSE a
Sgn(a) == IF a < 0 THEN 0 - 1 ELSE IF a > 0 THEN 1 ELSE 0

RECURSIVE GCD(_, _)
GCD(a, b) == IF b = 0 THEN a ELSE GCD(b, a % b)

\* rationals in lowest terms with a positive denominator;
\* <<1,0>> = +Inf, <<-1,0>> = -Inf, <<0,0>> = NaN
RNorm(r) ==
  IF r[2] = 0 THEN <<Sgn(r[1]), 0>>
  ELSE LET g == GCD(Abs(r[1]), Abs(r[2]))
           s == Sgn(r[2])
       IN  <<(s * r[1]) \div g, (s * r[2]) \div g>>
RInt(k) == <<k, 1>>
RAdd(p, q) == RNorm(<<p[1] * q[2] + q[1] * p[2], p[2] * q[2]>>)
RSub(p, q) == RNorm(<<p[1] * q[2] - q[1] * p[2], p[2] * q[2]>>)
RMul(p, q) == RNorm(<<p[1] * q[1], p[2] * q[2]>>)
RInv(p) == RNorm(<<p[2], p[1]>>)
RLt(p, q) == p[1] * q[2] < q[1] * p[2]
RZero == RInt(0)
ROne == RInt(1)

RECURSIVE RSum(_, _)
\* sum of f[0] .. f[k-1], accumulated in index order as the C loops do
RSum(f, k) == IF k = 0 THEN RZero ELSE RAdd(RSum(f, k - 1), f[k - 1])

\* --------------------------------------------------------------- inputs
Vals == {0 - 1, 0, 1}
WtVals == {<<0 - 1, 2>>, <<0, 1>>, <<1, 2>>, <<1, 1>>}
\* the spec's invalid weight vector [0.5, 0.6]
BadWtExample == [i \in 0 .. 1 |-> IF i = 0 THEN <<1, 2>> ELSE <<3, 5>>]

\* all m x n matrices with at most MaxNnz non-zero entries drawn from vs
Matrices(m, n, vs) ==
  LET Idx == 0 .. (m * n - 1)
  IN  UNION {{[k \in Idx |-> IF k \in S THEN v[k] ELSE 0] :
                v \in [S -> vs \ {0}]} :
             S \in {T \in SUBSET Idx : Cardinality(T) <= MaxNnz}}

\* contents of the caller's output buffers before the call
Colmeans0(n) == [j \in 0 .. (n - 1) |-> RInt(100 + j)]
Cov0(n) == [k \in 0 .. (n * n - 1) |-> RInt(200 + k)]

VARIABLES
  engine,    \* "wt": a weighted covariance call; "cos": the dense and then
             \* the sparse cosine engine run on one logical matrix; "chk": a
             \* call of wtchecks(m, wt)
  pc,        \* position of the call
  method, m, n, x,
  wtNull,    \* wt == NULL
  wt,        \* the caller's weight buffer (empty when wt == NULL)
  wtlen,     \* the wtlen parameter (reassigned at line 113)
  wt_pt,     \* the local wt_pt, as the array it points to
  x_cp,      \* the working copy
  colmeans, cov,
  cdone,     \* columns center_wt has finished
  alpha,     \* the local alpha of wtcp at its end
  ret,       \* return value
  ub,        \* undefined behaviour met so far: "none", "null", "oob",
             \* "noreturn"
  allocated, \* the buffers malloc'ed by the call and not freed: {"x_cp"}
  cosd,      \* the dense cosine engine's n x n output
  rdone,     \* columns the dense rescaling pass has finished
  coo,       \* the sparse input: triplets <<row, col, value>>, 0-based
  coss,      \* the sparse cosine engine's n x n output
  sj,        \* the sparse engine's current column j
  spos       \* the sparse engine's position in the triplet array

wtvars == <<method, wtNull, wt, wtlen, wt_pt, x_cp, colmeans, cov, cdone,
            alpha, ret, ub, allocated>>
cosvars == <<cosd, rdone, coo, coss, sj, spos>>
vars == <<engine, pc, m, n, x, wtvars, cosvars>>

Empty == [k \in {} |-> RZero]
NoRet == 0 - 99

\* ----------------------------------------------- src/src/dense_wt.c
\* wtchecks, lines 44-59: the condition under which it returns BADWT (a
\* negative entry among wt[0 .. m-1], or a sum different from 1.0).  The
\* function has no return statement on the other path.
WtchecksBad(mm, w) ==
  \/ \E i \in 0 .. (mm - 1) : RLt(w[i], RZero)
  \/ RSum(w, mm) # ROne

\* wtcp, lines 61-83: the value of alpha when the function ends.
\* w0 is the value read through wt[0] in the wtlen == 1 branch.
\* lines 72-73: the value of alpha after k iterations, started from a; each
\* iteration assigns alpha = wt[i]*wt[i], so the last one decides
WtcpLoop(w, k, a) == IF k = 0 THEN a ELSE RMul(w[k - 1], w[k - 1])

WtcpAlpha(meth, mm, len, w, w0) ==
  IF meth = WT_UNBIASED
  THEN IF len = 1
       THEN RInv(RSub(ROne, RMul(RInt(mm), RMul(w0, w0))))
       ELSE RSub(ROne, WtcpLoop(w, mm, RZero))
  ELSE ROne

\* center_wt, lines 90-98, one iteration of the column loop: w is the value
\* read through wt[j]
CenterWtColumn(mm, xx, w, j) ==
  RSum([i \in 0 .. (mm - 1) |-> RMul(w, RInt(xx[i + mm * j]))], mm)

InitWt ==
  /\ engine = "wt"
  /\ pc = "wt_start"
  /\ method \in {WT_UNBIASED, WT_ML}
  /\ m \in 1 .. MaxM
  /\ n \in 1 .. MaxWtN
  /\ x \in Matrices(m, n, {0, 1})
  /\ \/ /\ wtNull = TRUE
        /\ wt = Empty
        /\ wtlen = 0
     \/ /\ wtNull = FALSE
        /\ wtlen \in {1, m}
        /\ \/ wt \in [0 .. (wtlen - 1) -> WtVals]
           \/ wtlen = 2 /\ wt = BadWtExample
  /\ wt_pt = Empty
  /\ x_cp = Empty
  /\ colmeans = Colmeans0(n)
  /\ cov = Cov0(n)
  /\ cdone = {}
  /\ alpha = RZero
  /\ ret = NoRet
  /\ ub = "none"
  /\ allocated = {}
  /\ cosd = Empty /\ coss = Empty /\ coo = Empty
  /\ rdone = {} /\ sj = 0 /\ spos = 0

\* CHECKMALLOC (coop.h): the value returned when an allocation fails, an
\* error code of its own
BADMALLOC == 0 - 2

ColmeansZeroedFirst(mm, nn, xx, w, cm) == [j \in 0 .. (nn - 1) |-> RZero]

\* what lines 106-120 leave in colmeans: nothing is written to the output
\* buffers before the allocation is checked
ColmeansBeforeAlloc(mm, nn, xx, w, cm) == cm

\* coop_covar_wt_mat, lines 106-121, the allocation succeeding
WtEntry ==
  /\ engine = "wt" /\ pc = "wt_start"
  /\ IF wtNull
     THEN /\ wt_pt' = [i \in 0 .. 0 |-> RInv(RInt(m))]
          /\ wtlen' = 1
     ELSE /\ wt_pt' = wt
          /\ wtlen' = wtlen
  /\ allocated' = allocated \cup {"x_cp"}
  /\ x_cp' = [k \in 0 .. (m * n - 1) |-> RInt(x[k])]
  /\ colmeans' = ColmeansBeforeAlloc(m, n, x, wt, colmeans)
  /\ pc' = "wt_center"
  /\ UNCHANGED <<engine, method, m, n, x, wtNull, wt, cov, cdone,
                 alpha, ret, ub, cosvars>>

\* coop_covar_wt_mat, lines 106-120, malloc returning NULL: CHECKMALLOC
\* returns from the call
WtMallocFail ==
  /\ engine = "wt" /\ pc = "wt_start"
  /\ IF wtNull
     THEN /\ wt_pt' = [i \in 0 .. 0 |-> RInv(RInt(m))]
          /\ wtlen' = 1
     ELSE /\ wt_pt' = wt
          /\ wtlen' = wtlen
  /\ colmeans' = ColmeansBeforeAlloc(m, n, x, wt, colmeans)
  /\ ret' = BADMALLOC
  /\ pc' = "done"
  /\ UNCHANGED <<engine, method, m, n, x, wtNull, wt, x_cp, cov, cdone,
                 alpha, ub, allocated, cosvars>>

\* center_wt as called at line 123 with the parameter wt (not wt_pt): one
\* iteration of the column loop of lines 90-98.  The iterations are
\* independent (omp parallel for) and run in any order.  Reading wt[j] when
\* wt is NULL or j is outside the caller's buffer is undefined: the read
\* faults or yields some value.
CenterWtCol(j) ==
  /\ engine = "wt" /\ pc = "wt_center"
  /\ j \in (0 .. (n - 1)) \ cdone
  /\ IF wtNull \/ j >= wtlen
     THEN /\ ub' = (IF wtNull THEN "null" ELSE "oob")
          /\ \/ /\ pc' = "crashed"
                /\ UNCHANGED <<colmeans, cdone>>
             \/ \E w \in WtVals :
                  /\ colmeans' = [colmeans EXCEPT ![j] = CenterWtColumn(m, x, w, j)]
                  /\ cdone' = cdone \cup {j}
                  /\ pc' = pc
     ELSE /\ colmeans' = [colmeans EXCEPT ![j] = CenterWtColumn(m, x, wt[j], j)]
          /\ cdone' = cdone \cup {j}
          /\ UNCHANGED <<pc, ub>>
  /\ UNCHANGED <<engine, method, m, n, x, wtNull, wt, wtlen, wt_pt, x_cp, cov,
                 alpha, ret, allocated, cosvars>>

\* coop_scale(true, false, m, n, x_cp, colmeans, NULL), line 125: centers
\* the working copy by the column means
CoopScaleCenter(mm, nn, xc, cm) ==
  [k \in 0 .. (mm * nn - 1) |-> RSub(xc[k], cm[k \div mm])]

CoopScaleInPlace ==
  /\ engine = "wt" /\ pc = "wt_center"
  /\ cdone = 0 .. (n - 1)
  /\ x' = [k \in 0 .. (m * n - 1) |-> x[k] - colmeans[k \div m][1]]
  /\ pc' = "wt_wtcp"
  /\ UNCHANGED <<engine, method, m, n, x_cp, wtNull, wt, wtlen, wt_pt, colmeans,
                 cov, cdone, alpha, ret, ub, allocated, cosvars>>

CoopScale ==
  /\ engine = "wt" /\ pc = "wt_center"
  /\ cdone = 0 .. (n - 1)
  /\ x_cp' = CoopScaleCenter(m, n, x_cp, colmeans)
  /\ pc' = "wt_wtcp"
  /\ UNCHANGED <<engine, method, m, n, x, wtNull, wt, wtlen, wt_pt, colmeans,
                 cov, cdone, alpha, ret, ub, allocated, cosvars>>

\* wtcp as called at line 127 with x and the parameter wt.  The crossprod
\* call of line 82 is commented out: wtcp writes nothing but its local alpha.
\* With wt == NULL the wtlen == 1 branch reads wt[0] through NULL.
Wtcp ==
  /\ engine = "wt" /\ pc = "wt_wtcp"
  /\ IF wtNull /\ method = WT_UNBIASED
     THEN /\ ub' = "null"
          /\ \/ /\ pc' = "crashed"
                /\ alpha' = alpha
             \/ \E w \in WtVals :
                  /\ alpha' = WtcpAlpha(method, m, wtlen, wt, w)
                  /\ pc' = "wt_symm"
     ELSE /\ alpha' = WtcpAlpha(method, m, wtlen, wt,
                                IF wtNull THEN RZero ELSE wt[0])
          /\ pc' = "wt_symm"
          /\ ub' = ub
  /\ UNCHANGED <<engine, method, m, n, x, wtNull, wt, wtlen, wt_pt, x_cp,
                 colmeans, cov, cdone, ret, allocated, cosvars>>

\* symmetrize (utils/fill.h): copies the computed (upper) triangle of the
\* n x n buffer onto the other triangle
symmetrize(nn, c) ==
  [k \in 0 .. (nn * nn - 1) |->
     LET i == k % nn
         j == k \div nn
     IN  IF i > j THEN c[j + nn * i] ELSE c[k]]

\* coop_covar_wt_mat, lines 129-131
WtSymmetrize ==
  /\ engine = "wt" /\ pc = "wt_symm"
  /\ cov' = symmetrize(n, cov)
  /\ ret' = 0
  /\ pc' = "done"
  /\ UNCHANGED <<engine, method, m, n, x, wtNull, wt, wtlen, wt_pt, x_cp,
                 colmeans, cdone, alpha, ub, allocated, cosvars>>

NextWt ==
  \/ WtEntry
  \/ WtMallocFail
  \/ \E j \in 0 .. (MaxWtN - 1) : CenterWtCol(j)
  \/ CoopScale
  \/ Wtcp
  \/ WtSymmetrize

\* ---------------------------------------------------- a call of wtchecks
\* what a caller can find as the value of a call that ended without a
\* return statement
UndefinedInts == {BADWT, 0, 1}

InitChk ==
  /\ engine = "chk"
  /\ pc = "chk_start"
  /\ m \in 1 .. MaxM
  /\ wtNull = FALSE
  /\ wtlen = m
  /\ \/ wt \in [0 .. (m - 1) -> WtVals]
     \/ m = 2 /\ wt = BadWtExample
  /\ n = 1 /\ x = Empty /\ method = WT_ML
  /\ wt_pt = Empty /\ x_cp = Empty /\ colmeans = Empty /\ cov = Empty
  /\ cdone = {} /\ alpha = RZero /\ ret = NoRet /\ ub = "none"
  /\ allocated = {}
  /\ cosd = Empty /\ coss = Empty /\ coo = Empty
  /\ rdone = {} /\ sj = 0 /\ spos = 0

\* wtchecks, lines 44-59: BADWT at lines 52 and 58; otherwise control
\* reaches the closing brace of the non-void function
WtchecksCall ==
  /\ engine = "chk" /\ pc = "chk_start"
  /\ IF WtchecksBad(m, wt)
     THEN ret' = BADWT /\ ub' = ub
     ELSE ret' \in UndefinedInts /\ ub' = "noreturn"
  /\ pc' = "done"
  /\ UNCHANGED <<engine, m, n, x, method, wtNull, wt, wtlen, wt_pt, x_cp,
                 colmeans, cov, cdone, alpha, allocated, cosvars>>

\* ------------------------------------------------- cosine result cells
\* <<p, q>> stands for p / sqrt(q); an integer k is <<k, 1>>
CInt(k) == <<k, 1>>
CZero == CInt(0)
COne == CInt(1)
CNaN == <<0, 0>>
IsNaN(c) == c[1] = 0 /\ c[2] = 0
\* IEEE equality of two cells: a NaN equals nothing
CEq(a, b) ==
  /\ ~IsNaN(a) /\ ~IsNaN(b)
  /\ Sgn(a[1]) = Sgn(b[1])
  /\ a[1] * a[1] * b[2] = b[1] * b[1] * a[2]
\* c / sqrt(d) for an integer d >= 0; 0/0 is NaN and k/0 is +-Inf
CDivSqrt(c, d) == IF d = 0 THEN <<Sgn(c[1]), 0>> ELSE <<c[1], c[2] * d>>

\* contents of the caller's preallocated n x n buffers before the call
Cos0(nn) == [k \in 0 .. (nn * nn - 1) |-> CInt(300 + k)]

\* the spec's concrete scenarios, as dense column-major matrices:
\* 3 x 3 storing only (0,0,1.0) and (1,1,1.0); X = [[1,0],[0,1],[1,1]]
ExampleDiag3 == [k \in 0 .. 8 |-> IF k \in {0, 4} THEN 1 ELSE 0]
ExampleX32 == [k \in 0 .. 5 |-> IF k \in {1, 3} THEN 0 ELSE 1]

RECURSIVE Triplets(_, _, _)
\* the triplets of the non-zero entries among x[0 .. k-1], in storage order:
\* sorted by column, then by row, duplicate-free
Triplets(xx, mm, k) ==
  IF k = 0 THEN <<>>
  ELSE LET t == Triplets(xx, mm, k - 1)
       IN  IF xx[k - 1] = 0 THEN t
           ELSE Append(t, <<(k - 1) % mm, (k - 1) \div mm, xx[k - 1]>>)
ToCOO(xx, mm, nn) ==
  LET t == Triplets(xx, mm, mm * nn)
  IN  [k \in 0 .. (Len(t) - 1) |-> t[k + 1]]
Nnz(c) == Cardinality(DOMAIN c)

\* ------------------------------- Dense Matrix Input, part_000 lines 70-77
\* step 1: the upper triangle of t(x) %*% x; the rest of the buffer keeps
\* its contents
Syrk(mm, nn, xx, c) ==
  [k \in 0 .. (nn * nn - 1) |->
     LET i == k % nn
         j == k \div nn
     IN  IF i <= j
         THEN CInt(RSum([r \in 0 .. (mm - 1) |->
                           RInt(xx[r + mm * i] * xx[r + mm * j])], mm)[1])
         ELSE c[k]]

RescaleColumnThenDiagonal(nn, c, j) ==
  [k \in 0 .. (nn * nn - 1) |->
     LET i == k % nn
     IN  IF k \div nn = j /\ i < j
         THEN CDivSqrt(c[k], c[i + nn * i][1] * c[j + nn * j][1])
         ELSE IF k \div nn = j /\ i = j THEN COne ELSE c[k]]

\* step 2.1 for column j of the upper triangle
RescaleColumn(nn, c, j) ==
  [k \in 0 .. (nn * nn - 1) |->
     LET i == k % nn
     IN  IF k \div nn = j /\ i < j
         THEN CDivSqrt(c[k], c[i + nn * i][1] * c[j + nn * j][1])
         ELSE c[k]]

DiagToOneSkipped(nn, c) == c

\* step 2.2
DiagToOne(nn, c) ==
  [k \in 0 .. (nn * nn - 1) |-> IF k % nn = k \div nn THEN COne ELSE c[k]]

CopyUpperToLowerSkipped(nn, c) == c

\* step 3
CopyUpperToLower(nn, c) ==
  [k \in 0 .. (nn * nn - 1) |->
     IF k % nn > k \div nn THEN c[(k \div nn) + nn * (k % nn)] ELSE c[k]]

InitCos ==
  /\ engine = "cos"
  /\ pc = "d_syrk"
  /\ \/ /\ m \in 1 .. MaxM
        /\ n \in 1 .. MaxN
        /\ x \in Matrices(m, n, Vals)
     \/ m = 3 /\ n = 3 /\ x = ExampleDiag3
     \/ m = 3 /\ n = 2 /\ x = ExampleX32
  /\ coo = ToCOO(x, m, n)
  /\ cosd = Cos0(n)
  /\ coss = Cos0(n)
  /\ rdone = {} /\ sj = 0 /\ spos = 0
  /\ method = WT_ML /\ wtNull = TRUE /\ wt = Empty /\ wtlen = 0
  /\ wt_pt = Empty /\ x_cp = Empty /\ colmeans = Empty /\ cov = Empty
  /\ cdone = {} /\ alpha = RZero /\ ret = NoRet /\ ub = "none"
  /\ allocated = {}

DenseSyrk ==
  /\ engine = "cos" /\ pc = "d_syrk"
  /\ cosd' = Syrk(m, n, x, cosd)
  /\ pc' = "d_rescale"
  /\ UNCHANGED <<engine, m, n, x, wtvars, rdone, coo, coss, sj, spos>>

\* the rescaling pass is distributed over the columns; the columns are
\* handled in any order
DenseRescaleCol(j) ==
  /\ engine = "cos" /\ pc = "d_rescale"
  /\ j \in (0 .. (n - 1)) \ rdone
  /\ cosd' = RescaleColumn(n, cosd, j)
  /\ rdone' = rdone \cup {j}
  /\ UNCHANGED <<engine, pc, m, n, x, wtvars, coo, coss, sj, spos>>

DenseDiag ==
  /\ engine = "cos" /\ pc = "d_rescale"
  /\ rdone = 0 .. (n - 1)
  /\ cosd' = DiagToOne(n, cosd)
  /\ pc' = "d_mirror"
  /\ UNCHANGED <<engine, m, n, x, wtvars, rdone, coo, coss, sj, spos>>

DenseMirror ==
  /\ engine = "cos" /\ pc = "d_mirror"
  /\ cosd' = CopyUpperToLower(n, cosd)
  /\ pc' = "s_init"
  /\ UNCHANGED <<engine, m, n, x, wtvars, rdone, coo, coss, sj, spos>>

\* ---------------------------- Sparse Matrix Input, part_000 lines 109-123
RECURSIVE ScanTo(_, _, _)
\* the first position at or after pos whose triplet has a column >= j
ScanTo(c, pos, j) ==
  IF pos < Nnz(c) /\ c[pos][2] < j THEN ScanTo(c, pos + 1, j) ELSE pos
\* first and final position of column j, searched from pos: [start, end)
ColStart(c, pos, j) == ScanTo(c, pos, j)
ColEndAtStart(c, pos, j) == ScanTo(c, ScanTo(c, pos, j), j)
ColEnd(c, pos, j) == ScanTo(c, ColStart(c, pos, j), j + 1)

RECURSIVE SparseDot(_, _, _, _, _)
\* dot product of the runs [s1, e1) and [s2, e2), merged on the row index
SparseDot(c, s1, e1, s2, e2) ==
  IF s1 >= e1 \/ s2 >= e2 THEN 0
  ELSE IF c[s1][1] = c[s2][1]
       THEN c[s1][3] * c[s2][3] + SparseDot(c, s1 + 1, e1, s2 + 1, e2)
       ELSE IF c[s1][1] < c[s2][1]
            THEN SparseDot(c, s1 + 1, e1, s2, e2)
            ELSE SparseDot(c, s1, e1, s2 + 1, e2)

\* step 2.4: "If xy > epsilon", epsilon = 1e-10.  The entries are integers,
\* so xy is an integer and exceeds 1e-10 exactly when it is at least 1.
ExceedsEpsilon(xy) == xy >= 1

SetToNaNColumnOnly(nn, c, j) ==
  [k \in 0 .. (nn * nn - 1) |->
     IF k \div nn = j /\ k % nn >= j THEN CNaN ELSE c[k]]

\* step 2.1: the j'th row and column of the lower triangle
SetToNaN(nn, c, j) ==
  [k \in 0 .. (nn * nn - 1) |->
     LET r == k % nn
         cl == k \div nn
     IN  IF (r = j /\ cl <= j) \/ (cl = j /\ r >= j) THEN CNaN ELSE c[k]]

\* steps 2.2-2.4 for the non-empty column j = [s, e)
FillColumn(nn, cc, c, j, s, e) ==
  [k \in 0 .. (nn * nn - 1) |->
     LET i == k % nn
     IN  IF k \div nn = j /\ i > j
         THEN LET s2 == ColStart(cc, e, i)
                  e2 == ColEnd(cc, e, i)
                  xy == SparseDot(cc, s, e, s2, e2)
              IN  IF ExceedsEpsilon(xy)
                  THEN CDivSqrt(CInt(xy), SparseDot(cc, s, e, s, e)
                                          * SparseDot(cc, s2, e2, s2, e2))
                  ELSE c[k]
         ELSE c[k]]

\* step 3
CopyLowerToUpper(nn, c) ==
  [k \in 0 .. (nn * nn - 1) |->
     IF k % nn < k \div nn THEN c[(k \div nn) + nn * (k % nn)] ELSE c[k]]

\* step 1
SparseInit ==
  /\ engine = "cos" /\ pc = "s_init"
  /\ coss' = [k \in 0 .. (n * n - 1) |-> CZero]
  /\ sj' = 0 /\ spos' = 0
  /\ pc' = "s_col"
  /\ UNCHANGED <<engine, m, n, x, wtvars, cosd, rdone, coo>>

\* step 2 for column sj
SparseCol ==
  /\ engine = "cos" /\ pc = "s_col"
  /\ sj < n
  /\ LET s == ColStart(coo, spos, sj)
         e == ColEnd(coo, spos, sj)
     IN  /\ coss' = IF s = e THEN SetToNaN(n, coss, sj)
                    ELSE FillColumn(n, coo, coss, sj, s, e)
         /\ spos' = e
  /\ sj' = sj + 1
  /\ UNCHANGED <<engine, pc, m, n, x, wtvars, cosd, rdone, coo>>

SparseFinish ==
  /\ engine = "cos" /\ pc = "s_col"
  /\ sj = n
  /\ coss' = DiagToOne(n, CopyLowerToUpper(n, coss))
  /\ pc' = "done"
  /\ UNCHANGED <<engine, m, n, x, wtvars, cosd, rdone, coo, sj, spos>>

NextCos ==
  \/ DenseSyrk
  \/ \E j \in 0 .. (MaxN - 1) : DenseRescaleCol(j)
  \/ DenseDiag
  \/ DenseMirror
  \/ SparseInit
  \/ SparseCol
  \/ SparseFinish

Init == InitWt \/ InitCos \/ InitChk
Next == NextWt \/ NextCos \/ WtchecksCall
Spec == Init /\ [][Next]_vars
\* ------------------------------------------------------------- properties
Cols == 0 .. (n - 1)
Rows == 0 .. (m - 1)
\* the supplied weight vector has one entry per row
FullWt == engine = "wt" /\ ~wtNull /\ wtlen = m
WtReturned == engine = "wt" /\ pc = "done"
AfterWtcp == engine = "wt" /\ pc \in {"wt_symm", "done"}
DenseDone == engine = "cos" /\ pc \in {"s_init", "s_col", "done"}
SparseDone == engine = "cos" /\ pc = "done"
ColumnIsZero(j) == \A r \in Rows : x[r + m * j] = 0
\* dot product of columns i and j of the logical matrix
Dot(i, j) == RSum([r \in Rows |-> RInt(x[r + m * i] * x[r + m * j])], m)[1]

\* C1: a call with a supplied weight vector that has a negative entry or
\* does not sum to 1 returns an error, leaves colmeans and cov as they were
\* before the call, and runs no centering, scaling, crossproduct or
\* symmetrize step.
C1_InvalidWeightsRejected ==
  (FullWt /\ WtchecksBad(m, wt)) =>
     /\ colmeans = Colmeans0(n)
     /\ cov = Cov0(n)
     /\ cdone = {}
     /\ pc \notin {"wt_wtcp", "wt_symm"}
     /\ (pc = "done" => ret # 0)

\* C2: after a return of 0, cov[i,j] = alpha * sum_r xc[r,i] * xc[r,j] in
\* both triangles, xc being the working copy centered by the weighted
\* column means of the same call.
C2_CovIsAlphaCrossprod ==
  (WtReturned /\ ret = 0) =>
     \A i, j \in Cols :
        cov[i + n * j] =
          RMul(alpha, RSum([r \in Rows |-> RMul(x_cp[r + m * i], x_cp[r + m * j])], m))

\* the correction factor of the weighted covariance: 1/(1 - m*w0^2) for a
\* single weight w0, 1/(1 - sum of w[i]^2) for m weights, 1 for
\* maximum likelihood
AlphaOf(meth, mm, len, w) ==
  IF meth = WT_UNBIASED
  THEN IF len = 1
       THEN RInv(RSub(ROne, RMul(RInt(mm), RMul(w[0], w[0]))))
       ELSE RInv(RSub(ROne, RSum([i \in 0 .. (mm - 1) |-> RMul(w[i], w[i])], mm)))
  ELSE ROne

\* C3: the alpha wtcp computes is 1/(1 - m*w0^2) (unbiased, one weight),
\* 1/(1 - sum_{i<m} w[i]^2) (unbiased, m weights), 1 (maximum likelihood).
C3_AlphaFormula ==
  (AfterWtcp /\ ~wtNull) => alpha = AlphaOf(method, m, wtlen, wt)

\* C4: for a valid length-m weight vector, each column mean center_wt has
\* written is sum_{i<m} w[i] * x[i,j], and only wt[0 .. m-1] is read.
C4_ColmeansWeighted ==
  (FullWt /\ ~WtchecksBad(m, wt)) =>
     /\ ub = "none"
     /\ \A j \in cdone :
          colmeans[j] = RSum([i \in Rows |-> RMul(wt[i], RInt(x[i + m * j]))], m)

\* C5: a call with wt == NULL never reads through the absent pointer,
\* completes, produces the unweighted means (sum_i x[i,j]) / m and computes
\* alpha from the single value 1/m.
C5_NullIsUniform ==
  (engine = "wt" /\ wtNull) =>
     /\ ub = "none"
     /\ pc # "crashed"
     /\ \A j \in cdone :
          colmeans[j] = RMul(RInv(RInt(m)), RSum([i \in Rows |-> RInt(x[i + m * j])], m))
     /\ (AfterWtcp => alpha = AlphaOf(method, m, 1, [i \in 0 .. 0 |-> RInv(RInt(m))]))

\* a cell and its mirror are equal, or both NaN
Mirrored(a, b) == CEq(a, b) \/ (IsNaN(a) /\ IsNaN(b))
Symmetric(c) == \A i, j \in Cols : Mirrored(c[i + n * j], c[j + n * i])

\* C6: every engine that returns an n x n matrix returns a symmetric one:
\* C[i,j] = C[j,i] for all i, j, a NaN cell mirrored by a NaN cell.
C6_ResultSymmetric ==
  /\ (WtReturned /\ ret = 0) => \A i, j \in Cols : cov[i + n * j] = cov[j + n * i]
  /\ DenseDone => Symmetric(cosd)
  /\ SparseDone => Symmetric(coss)

C6_Witness ==
  /\ SparseDone /\ n = 3
  /\ \E i, j \in Cols : i # j /\ IsNaN(cosd[i + n * j]) /\ IsNaN(coss[i + n * j])
  /\ \E i, j \in Cols : i # j /\ ~IsNaN(cosd[i + n * j]) /\ cosd[i + n * j][1] # 0

\* C7 as stated: in the dense result the diagonal entry of a column with a
\* non-zero entry is exactly 1 and that of an all-zero column is NaN.
C7_Original ==
  DenseDone =>
     \A j \in Cols : IF ColumnIsZero(j) THEN IsNaN(cosd[j + n * j])
                                        ELSE cosd[j + n * j] = COne

\* C7, amended: in the dense result every diagonal entry is exactly 1,
\* whether its column has a non-zero entry or is entirely zero.
C7_DiagonalOne == DenseDone => \A j \in Cols : cosd[j + n * j] = COne

C7_Witness ==
  /\ DenseDone
  /\ \E j \in Cols : ColumnIsZero(j)
  /\ \E j \in Cols : Dot(j, j) > 1

ColumnIsEmpty(j) == \A k \in DOMAIN coo : coo[k][2] # j

C9_Threshold ==
  SparseDone =>
     \A i, j \in Cols :
        (i > j /\ ~ColumnIsEmpty(i) /\ ~ColumnIsEmpty(j)) =>
           IF Abs(Dot(i, j)) >= 1
           THEN CEq(coss[i + n * j], CDivSqrt(CInt(Dot(i, j)), Dot(i, i) * Dot(j, j)))
           ELSE CEq(coss[i + n * j], CZero)

\* C10: the dense engine on the dense form and the sparse engine on the
\* sorted, duplicate-free COO form of one matrix agree cell by cell: the
\* same NaN cells, equal values elsewhere.
C10_DenseSparseAgree ==
  SparseDone =>
     \A k \in 0 .. (n * n - 1) :
        /\ IsNaN(cosd[k]) <=> IsNaN(coss[k])
        /\ ~IsNaN(cosd[k]) => CEq(cosd[k], coss[k])
\* the call returned without a working copy: the allocation failed
MallocFailed == engine = "wt" /\ pc = "done" /\ x_cp = Empty

C12_WorkingCopyReleased == (engine = "wt" /\ pc = "done") => allocated = {}
\* C13: wtchecks(m, wt) returns BADWT exactly when some wt[i], i < m, is
\* negative or wt[0 .. m-1] does not sum to 1, and returns a defined value
\* other than BADWT when the weights are valid.
C13_WtchecksResult ==
  (engine = "chk" /\ pc = "done") =>
     /\ ret = BADWT <=> WtchecksBad(m, wt)
     /\ ~WtchecksBad(m, wt) => ub = "none"
\* the cosine of columns i and j from the crossproduct and its original
\* diagonal
CosineOf(i, j) == CDivSqrt(CInt(Dot(i, j)), Dot(i, i) * Dot(j, j))
\* the rescaling pass so far: the diagonal still holds the crossproduct, and
\* the finished columns hold the cosines
RescaleUsesOriginalDiagonal ==
  /\ (engine = "cos" /\ pc = "d_rescale") =>
        /\ \A j \in Cols : cosd[j + n * j] = CInt(Dot(j, j))
        /\ \A j \in rdone : \A i \in Cols :
              i < j => Mirrored(cosd[i + n * j], CosineOf(i, j))
  /\ DenseDone =>
        \A i, j \in Cols : i < j => Mirrored(cosd[i + n * j], CosineOf(i, j))
IsExampleX32 == engine = "cos" /\ m = 3 /\ n = 2 /\ x = ExampleX32

\* C14 as stated: every upper-triangle off-diagonal entry is the
\* crossproduct entry divided by the square root of the product of the
\* original diagonal entries, in any column order, and for
\* X = [[1,0],[0,1],[1,1]] the result is [[1, 1/sqrt(2)], [1/sqrt(2), 1]].
C14_Original ==
  /\ RescaleUsesOriginalDiagonal
  /\ (IsExampleX32 /\ DenseDone) =>
        /\ cosd[0] = COne /\ cosd[3] = COne
        /\ CEq(cosd[1], <<1, 2>>) /\ CEq(cosd[2], <<1, 2>>)

\* C14, amended: the same, and for X = [[1,0],[0,1],[1,1]] the result is
\* [[1, 1/2], [1/2, 1]].
C14_RescaleByOriginalDiagonal ==
  /\ RescaleUsesOriginalDiagonal
  /\ (IsExampleX32 /\ DenseDone) =>
        /\ cosd[0] = COne /\ cosd[3] = COne
        /\ CEq(cosd[1], <<1, 4>>) /\ CEq(cosd[2], <<1, 4>>)

C14_Witness == IsExampleX32 /\ DenseDone
\* the triplet indices whose column is j, and the indices of a range
IndicesOfColumn(j) == {k \in DOMAIN coo : coo[k][2] = j}
RangeOf(s, e) == {k \in DOMAIN coo : s <= k /\ k < e}
\* at column sj the scan, taken up at spos, finds exactly the run of sj, and
\* from its end exactly the run of every later column
ScanLocatesColumns ==
  (engine = "cos" /\ pc = "s_col" /\ sj < n) =>
     LET s == ColStart(coo, spos, sj)
         e == ColEnd(coo, spos, sj)
     IN  /\ spos <= s /\ s <= e /\ e <= Nnz(coo)
         /\ RangeOf(s, e) = IndicesOfColumn(sj)
         /\ \A i \in Cols :
               i > sj =>
                  /\ e <= ColStart(coo, e, i)
                  /\ RangeOf(ColStart(coo, e, i), ColEnd(coo, e, i))
                       = IndicesOfColumn(i)

C16_CenterWorkersIndependent ==
  (engine = "wt" /\ pc = "wt_center") =>
     /\ ub = "none"
     /\ \A j \in Cols :
          IF j \in cdone
          THEN colmeans[j] = CenterWtColumn(m, x, wt[j], j)
          ELSE colmeans[j] = Colmeans0(n)[j]

\* C17: coop_covar_wt_mat never writes the caller's matrix x or weight
\* vector wt; centering goes to the private working copy.
C17_InputsReadOnly ==
  [][engine = "wt" => (x' = x /\ wt' = wt /\ wtNull' = wtNull)]_vars

C17_Witness ==
  /\ WtReturned /\ ret = 0
  /\ x_cp # [k \in 0 .. (m * n - 1) |-> RInt(x[k])]
  /\ colmeans # Colmeans0(n)
====
